---------------------------- MODULE Spec2Model ----------------------------
(***************************************************************************)
(* The evaluator harness of fidget: the Interval type with its             *)
(* choice-recording min/max, the Choice trace, the interval and point      *)
(* evaluator handles that own a tape and a choice buffer, storage reuse,   *)
(* subdivision, and the bridge to tape simplification.                     *)
(*                                                                         *)
(* An f32 is a record [k, v]: k = "num" with the value in v, k = "inf" for *)
(* an infinity, or k = "nan". Numbers are fixed-point: the integer v       *)
(* stands for v / Scale, and Scale = 2^MaxSubdiv, so the halvings of       *)
(* subdivision are exact as they are on binary floats. Products, quotients *)
(* and square roots are rounded to the nearest value, and a result beyond  *)
(* MaxFinite is an infinity.                                               *)
(***************************************************************************)
EXTENDS Integers, Sequences, FiniteSets, TLC

\* ------------------------------------------------------------------ bounds

\* Box endpoints and point coordinates are drawn from 0 .. MaxVal (times Scale).
MaxVal == 1
\* Subdivision depths are drawn from 0 .. MaxSubdiv.
MaxSubdiv == 1
\* Lengths of the vars slice handed to an evaluation are drawn from 0 .. MaxVars.
MaxVars == 1
\* Operands of the interval operations are drawn from -MaxOperand .. MaxOperand.
MaxOperand == 2
\* The largest finite value of the number format (f32::MAX), in units of
\* 1 / Scale; a larger result is an infinity.
MaxFinite == 64

\* At most MaxPeers evaluators hold one shared tape.
MaxPeers == 2

RECURSIVE Pow2(_)
Pow2(n) == IF n = 0 THEN 1 ELSE 2 * Pow2(n - 1)

Scale == Pow2(MaxSubdiv)

\* ------------------------------------------------------------------ f32

F(n) == [k |-> "num", v |-> n]
NaN == [k |-> "nan", v |-> 0]
\* The infinities: their v orders them beyond every finite value.
PosInf == [k |-> "inf", v |-> MaxFinite + 1]
NegInf == [k |-> "inf", v |-> 0 - (MaxFinite + 1)]
\* The value of an expression whose evaluation panicked (a failed assertion,
\* an index out of bounds): it is never an operand of a later operation.
PanicF == [k |-> "panic", v |-> 0]

is_nan(a) == a.k = "nan"
\* A number, finite or infinite.
IsNum(a) == a.k \in {"num", "inf"}
IsInf(a) == a.k = "inf"

\* IEEE comparisons: false as soon as one side is NaN.
FLt(a, b) == IsNum(a) /\ IsNum(b) /\ a.v < b.v
FGt(a, b) == FLt(b, a)
FGe(a, b) == IsNum(a) /\ IsNum(b) /\ a.v >= b.v
FLe(a, b) == FGe(b, a)
FEq(a, b) == IsNum(a) /\ IsNum(b) /\ a.v = b.v

\* f32::min and f32::max: if one argument is NaN the other is returned.
FMin(a, b) ==
    IF is_nan(a) THEN b
    ELSE IF is_nan(b) THEN a
    ELSE IF a.v <= b.v THEN a ELSE b

FMax(a, b) ==
    IF is_nan(a) THEN b
    ELSE IF is_nan(b) THEN a
    ELSE IF a.v >= b.v THEN a ELSE b

\* A result too large for the format becomes an infinity.
Norm(n) ==
    IF n > MaxFinite THEN PosInf
    ELSE IF n < 0 - MaxFinite THEN NegInf
    ELSE F(n)

Abs(n) == IF n < 0 THEN 0 - n ELSE n
Sign(n) == IF n < 0 THEN 0 - 1 ELSE IF n > 0 THEN 1 ELSE 0
SignedInf(s) == IF s < 0 THEN NegInf ELSE PosInf

\* n / d rounded to the nearest representable value, d > 0.
Round(n, d) == Sign(n) * ((2 * Abs(n) + d) \div (2 * d))

FNeg(a) ==
    IF is_nan(a) THEN NaN
    ELSE IF IsInf(a) THEN SignedInf(0 - a.v)
    ELSE F(0 - a.v)

FAdd(a, b) ==
    IF is_nan(a) \/ is_nan(b) THEN NaN
    ELSE IF IsInf(a) /\ IsInf(b) THEN (IF a.v = b.v THEN a ELSE NaN)
    ELSE IF IsInf(a) THEN a
    ELSE IF IsInf(b) THEN b
    ELSE Norm(a.v + b.v)

FSub(a, b) == FAdd(a, FNeg(b))

FMul(a, b) ==
    IF is_nan(a) \/ is_nan(b) THEN NaN
    ELSE IF IsInf(a) \/ IsInf(b)
    THEN (IF a.v = 0 \/ b.v = 0 THEN NaN ELSE SignedInf(Sign(a.v) * Sign(b.v)))
    ELSE Norm(Round(a.v * b.v, Scale))

\* a / b; the interval operations never divide by zero.
FDiv(a, b) ==
    IF is_nan(a) \/ is_nan(b) THEN NaN
    ELSE IF IsInf(a) /\ IsInf(b) THEN NaN
    ELSE IF IsInf(a) THEN SignedInf(Sign(a.v) * (IF b.v < 0 THEN 0 - 1 ELSE 1))
    ELSE IF IsInf(b) THEN F(0)
    ELSE IF b.v = 0 THEN (IF a.v = 0 THEN NaN ELSE SignedInf(a.v))
    ELSE Norm(Sign(b.v) * Round(a.v * Scale, Abs(b.v)))

\* a / 2.0
FHalf(a) == FDiv(a, F(2 * Scale))

FAbs(a) == IF IsNum(a) /\ a.v < 0 THEN FNeg(a) ELSE a

\* f32::powi(2)
FSquare(a) == FMul(a, a)

\* The integer nearest to the square root of m >= 0.
ISqrt(m) ==
    LET r == CHOOSE q \in 0 .. m : q * q <= m /\ m < (q + 1) * (q + 1)
    IN IF m - r * r > r THEN r + 1 ELSE r

\* f32::sqrt
FSqrt(a) ==
    IF is_nan(a) THEN NaN
    ELSE IF a.v < 0 THEN NaN
    ELSE IF IsInf(a) THEN PosInf
    ELSE F(ISqrt(a.v * Scale))

\* ------------------------------------------------------------------ Choice

Unknown == 0
Left == 1
Right == 2
Both == 3

Choice == {Unknown, Left, Right, Both}

Max2(a, b) == IF a >= b THEN a ELSE b

\* A merge that flips the bits where the code sets them.
ChoiceOr_xor(a, b) ==
    (((a % 2) + (b % 2)) % 2) + 2 * (((a \div 2) + (b \div 2)) % 2)

\* Bitwise OR of the two-bit fields.
ChoiceOr(a, b) == Max2(a % 2, b % 2) + 2 * Max2(a \div 2, b \div 2)

\* ------------------------------------------------------------------ Interval

Panicked == [lower |-> PanicF, upper |-> PanicF]
IsPanic(i) == i.lower.k = "panic"

\* Interval::new, with its assertion.
IntervalNew(lower, upper) ==
    IF FGe(upper, lower) \/ (is_nan(lower) /\ is_nan(upper))
    THEN [lower |-> lower, upper |-> upper]
    ELSE Panicked

has_nan(i) == is_nan(i.lower) \/ is_nan(i.upper)

\* From<f32> for Interval
FromF32(f) == IntervalNew(f, f)

NanInterval == FromF32(NaN)

\* A min_choice without the NaN test.
min_choice_nocheck(self, rhs) ==
    [val |-> IntervalNew(FMin(self.lower, rhs.lower),
                         FMin(self.upper, rhs.upper)),
     choice |-> IF FLt(self.upper, rhs.lower) THEN Left
                ELSE IF FLt(rhs.upper, self.lower) THEN Right
                ELSE Both]

\* A min_choice that decides by <= where the code decides by <.
min_choice_nonstrict(self, rhs) ==
    IF has_nan(self) \/ has_nan(rhs)
    THEN [val |-> NanInterval, choice |-> Both]
    ELSE [val |-> IntervalNew(FMin(self.lower, rhs.lower),
                              FMin(self.upper, rhs.upper)),
          choice |-> IF FGe(rhs.lower, self.upper) THEN Left
                     ELSE IF FGe(self.lower, rhs.upper) THEN Right
                     ELSE Both]

\* A min_choice that names the wrong operand.
min_choice_swapped(self, rhs) ==
    IF has_nan(self) \/ has_nan(rhs)
    THEN [val |-> NanInterval, choice |-> Both]
    ELSE [val |-> IntervalNew(FMin(self.lower, rhs.lower),
                              FMin(self.upper, rhs.upper)),
          choice |-> IF FLt(self.upper, rhs.lower) THEN Right
                     ELSE IF FLt(rhs.upper, self.lower) THEN Left
                     ELSE Both]

\* A min_choice that compares the wrong endpoints.
min_choice_lower(self, rhs) ==
    IF has_nan(self) \/ has_nan(rhs)
    THEN [val |-> NanInterval, choice |-> Both]
    ELSE [val |-> IntervalNew(FMin(self.lower, rhs.lower),
                              FMin(self.upper, rhs.upper)),
          choice |-> IF FLt(self.lower, rhs.lower) THEN Left
                     ELSE IF FLt(rhs.lower, self.lower) THEN Right
                     ELSE Both]

min_choice(self, rhs) ==
    IF has_nan(self) \/ has_nan(rhs)
    THEN [val |-> NanInterval, choice |-> Both]
    ELSE [val |-> IntervalNew(FMin(self.lower, rhs.lower),
                              FMin(self.upper, rhs.upper)),
          choice |-> IF FLt(self.upper, rhs.lower) THEN Left
                     ELSE IF FLt(rhs.upper, self.lower) THEN Right
                     ELSE Both]

\* A max_choice that decides by >= where the code decides by >.
max_choice_nonstrict(self, rhs) ==
    IF has_nan(self) \/ has_nan(rhs)
    THEN [val |-> NanInterval, choice |-> Both]
    ELSE [val |-> IntervalNew(FMax(self.lower, rhs.lower),
                              FMax(self.upper, rhs.upper)),
          choice |-> IF FGe(self.lower, rhs.upper) THEN Left
                     ELSE IF FGe(rhs.lower, self.upper) THEN Right
                     ELSE Both]

\* A max_choice that names the wrong operand.
max_choice_swapped(self, rhs) ==
    IF has_nan(self) \/ has_nan(rhs)
    THEN [val |-> NanInterval, choice |-> Both]
    ELSE [val |-> IntervalNew(FMax(self.lower, rhs.lower),
                              FMax(self.upper, rhs.upper)),
          choice |-> IF FGt(self.lower, rhs.upper) THEN Right
                     ELSE IF FGt(rhs.lower, self.upper) THEN Left
                     ELSE Both]

\* A max_choice that compares the wrong endpoints.
max_choice_upper(self, rhs) ==
    IF has_nan(self) \/ has_nan(rhs)
    THEN [val |-> NanInterval, choice |-> Both]
    ELSE [val |-> IntervalNew(FMax(self.lower, rhs.lower),
                              FMax(self.upper, rhs.upper)),
          choice |-> IF FGt(self.upper, rhs.upper) THEN Left
                     ELSE IF FGt(rhs.upper, self.upper) THEN Right
                     ELSE Both]

max_choice(self, rhs) ==
    IF has_nan(self) \/ has_nan(rhs)
    THEN [val |-> NanInterval, choice |-> Both]
    ELSE [val |-> IntervalNew(FMax(self.lower, rhs.lower),
                              FMax(self.upper, rhs.upper)),
          choice |-> IF FGt(self.lower, rhs.upper) THEN Left
                     ELSE IF FGt(rhs.lower, self.upper) THEN Right
                     ELSE Both]

\* An abs that forgets the negative part of an interval that straddles zero.
abs_upper(self) ==
    IF FLt(self.lower, F(0))
    THEN IF FGt(self.upper, F(0))
         THEN IntervalNew(F(0), self.upper)
         ELSE IntervalNew(FNeg(self.upper), FNeg(self.lower))
    ELSE self

\* Interval::abs
abs(self) ==
    IF FLt(self.lower, F(0))
    THEN IF FGt(self.upper, F(0))
         THEN IntervalNew(F(0), FMax(self.upper, FNeg(self.lower)))
         ELSE IntervalNew(FNeg(self.upper), FNeg(self.lower))
    ELSE self

\* Interval::square
square(self) ==
    IF FLt(self.upper, F(0))
    THEN IntervalNew(FSquare(self.upper), FSquare(self.lower))
    ELSE IF FGt(self.lower, F(0))
    THEN IntervalNew(FSquare(self.lower), FSquare(self.upper))
    ELSE IF has_nan(self) THEN NanInterval
    ELSE IntervalNew(F(0), FSquare(FMax(FAbs(self.lower), FAbs(self.upper))))

\* A sqrt that gives NaN as soon as the lower bound is negative.
sqrt_noclamp(self) ==
    IF FLt(self.lower, F(0)) THEN NanInterval
    ELSE IntervalNew(FSqrt(self.lower), FSqrt(self.upper))

\* A sqrt that clamps every negative bound to zero.
sqrt_clamped(self) ==
    IF FLt(self.lower, F(0))
    THEN IntervalNew(F(0), FSqrt(FMax(self.upper, F(0))))
    ELSE IntervalNew(FSqrt(self.lower), FSqrt(self.upper))

\* Interval::sqrt
sqrt(self) ==
    IF FLt(self.lower, F(0))
    THEN IF FGt(self.upper, F(0))
         THEN IntervalNew(F(0), FSqrt(self.upper))
         ELSE NanInterval
    ELSE IntervalNew(FSqrt(self.lower), FSqrt(self.upper))

\* A recip that does not test whether the interval contains zero.
recip_nocheck(self) ==
    IntervalNew(FDiv(F(Scale), self.upper), FDiv(F(Scale), self.lower))

\* Interval::recip
recip(self) ==
    IF FGt(self.lower, F(0)) \/ FLt(self.upper, F(0))
    THEN IntervalNew(FDiv(F(Scale), self.upper), FDiv(F(Scale), self.lower))
    ELSE NanInterval

\* Add for Interval
add(self, rhs) ==
    IntervalNew(FAdd(self.lower, rhs.lower), FAdd(self.upper, rhs.upper))

\* The min / max loop of Mul and Div over the four values out[0 .. 3].
FourWay(o1, o2, o3, o4) ==
    IntervalNew(FMin(FMin(FMin(o1, o2), o3), o4),
                FMax(FMax(FMax(o1, o2), o3), o4))

\* Mul for Interval
mul(self, rhs) ==
    IF has_nan(self) \/ has_nan(rhs) THEN NanInterval
    ELSE FourWay(FMul(self.lower, rhs.lower), FMul(self.lower, rhs.upper),
                 FMul(self.upper, rhs.lower), FMul(self.upper, rhs.upper))

\* Div for Interval
div(self, rhs) ==
    IF has_nan(self) THEN NanInterval
    ELSE IF FGt(rhs.lower, F(0)) \/ FLt(rhs.upper, F(0))
    THEN FourWay(FDiv(self.lower, rhs.lower), FDiv(self.lower, rhs.upper),
                 FDiv(self.upper, rhs.lower), FDiv(self.upper, rhs.upper))
    ELSE NanInterval

\* Sub for Interval
sub(self, rhs) ==
    IntervalNew(FSub(self.lower, rhs.upper), FSub(self.upper, rhs.lower))

\* Neg for Interval
neg(self) == IntervalNew(FNeg(self.upper), FNeg(self.lower))

\* ------------------------------------------------------------------ Tape

\* A tape is a sequence of clauses [op, a, b]; clause i writes slot i and the
\* last slot is the output. "x", "y", "z" load an axis, "var" loads vars[a],
\* "const" loads the constant a, "copy" copies slot a, "min" and "max" combine
\* slots a and b and are the choice operators; "neg", "abs", "square", "sqrt",
\* "recip" apply to slot a and "add", "sub", "mul", "div" to slots a and b.
Cl(op, a, b) == [op |-> op, a |-> a, b |-> b]

TapeX == << Cl("x", 0, 0) >>
TapeMin == << Cl("x", 0, 0), Cl("y", 0, 0), Cl("min", 1, 2) >>
TapeMaxMax == << Cl("x", 0, 0), Cl("y", 0, 0), Cl("max", 1, 2),
                 Cl("z", 0, 0), Cl("max", 3, 4) >>
TapeMinVar == << Cl("x", 0, 0), Cl("var", 1, 0), Cl("min", 1, 2) >>

Tapes == {TapeX, TapeMin, TapeMaxMax, TapeMinVar}

TapeMax == << Cl("x", 0, 0), Cl("y", 0, 0), Cl("max", 1, 2) >>
\* abs(x) + abs(y)
TapeAbsSum == << Cl("x", 0, 0), Cl("y", 0, 0), Cl("abs", 1, 1), Cl("abs", 2, 2),
                 Cl("add", 3, 4) >>
\* sqrt(2 x - 1)
TapeSqrt == << Cl("x", 0, 0), Cl("add", 1, 1), Cl("const", 1, 1),
               Cl("sub", 2, 3), Cl("sqrt", 4, 4) >>
\* x * x - y
TapeMulSub == << Cl("x", 0, 0), Cl("mul", 1, 1), Cl("y", 0, 0), Cl("sub", 2, 3) >>

\* 1 / x
TapeRecip == << Cl("x", 0, 0), Cl("recip", 1, 1) >>
\* x / y
TapeDiv == << Cl("x", 0, 0), Cl("y", 0, 0), Cl("div", 1, 2) >>

ScenTapes == {TapeMin, TapeMax, TapeMaxMax, TapeAbsSum, TapeSqrt, TapeMulSub,
              TapeRecip, TapeDiv}

IsChoiceOp(c) == c.op \in {"min", "max"}

\* Tape::choice_count
choice_count(tape) == Cardinality({i \in DOMAIN tape : IsChoiceOp(tape[i])})

\* Tape::var_count
var_count(tape) ==
    Cardinality({tape[i].a : i \in {j \in DOMAIN tape : tape[j].op = "var"}})

\* The index of the choice slot of clause i: choice operators in tape order.
ChoiceIndex(tape, i) ==
    Cardinality({j \in 1 .. i : IsChoiceOp(tape[j])})

\* ------------------------------------------------------------------ back-ends

\* The two back-end families the contract allows: one that ORs its choice into
\* the slot, and one that assigns the slot.
Modes == {"or", "assign"}

WriteChoice(mode, old, c) == IF mode = "or" THEN ChoiceOr(old, c) ELSE c

\* What a read of vars[i] yields; g is what an out-of-bounds read produces.
ReadVar(vars, i, g) == IF i \in DOMAIN vars THEN vars[i] ELSE g

\* The arithmetic clauses on intervals: unary ones take slot a alone.
ArithI(op, a, b) ==
    CASE op = "neg" -> neg(a)
      [] op = "abs" -> abs(a)
      [] op = "square" -> square(a)
      [] op = "sqrt" -> sqrt(a)
      [] op = "recip" -> recip(a)
      [] op = "add" -> add(a, b)
      [] op = "sub" -> sub(a, b)
      [] op = "mul" -> mul(a, b)
      [] op = "div" -> div(a, b)

\* The arithmetic clauses on points.
ArithP(op, a, b) ==
    CASE op = "neg" -> FNeg(a)
      [] op = "abs" -> FAbs(a)
      [] op = "square" -> FSquare(a)
      [] op = "sqrt" -> FSqrt(a)
      [] op = "recip" -> FDiv(F(Scale), a)
      [] op = "add" -> FAdd(a, b)
      [] op = "sub" -> FSub(a, b)
      [] op = "mul" -> FMul(a, b)
      [] op = "div" -> FDiv(a, b)

\* IntervalEvalT::eval_i: one pass over the clauses, writing the k-th choice
\* operator's choice into slot k.
RECURSIVE RunI(_, _, _, _, _, _, _)
RunI(tape, i, slots, in, choices, mode, g) ==
    IF i > Len(tape) THEN [out |-> slots[Len(tape)], choices |-> choices]
    ELSE
      LET c == tape[i]
          k == ChoiceIndex(tape, i)
          r == CASE c.op = "x" -> [val |-> in.x, choice |-> Unknown]
                 [] c.op = "y" -> [val |-> in.y, choice |-> Unknown]
                 [] c.op = "z" -> [val |-> in.z, choice |-> Unknown]
                 [] c.op = "var" ->
                      LET f == ReadVar(in.vars, c.a, g)
                      IN [val |-> IF f.k = "panic" THEN Panicked ELSE FromF32(f),
                          choice |-> Unknown]
                 [] c.op = "const" -> [val |-> FromF32(F(c.a * Scale)),
                                       choice |-> Unknown]
                 [] c.op = "copy" -> [val |-> slots[c.a], choice |-> Unknown]
                 [] c.op = "min" -> min_choice(slots[c.a], slots[c.b])
                 [] c.op = "max" -> max_choice(slots[c.a], slots[c.b])
                 [] OTHER -> [val |-> ArithI(c.op, slots[c.a], slots[c.b]),
                              choice |-> Unknown]
      IN IF IsPanic(r.val) \/ (IsChoiceOp(c) /\ k \notin DOMAIN choices)
         THEN [out |-> Panicked, choices |-> choices]
         ELSE RunI(tape, i + 1, Append(slots, r.val), in,
                   IF IsChoiceOp(c)
                   THEN [choices EXCEPT ![k] = WriteChoice(mode, @, r.choice)]
                   ELSE choices,
                   mode, g)

BackendEvalI(tape, x, y, z, vars, choices, mode, g) ==
    RunI(tape, 1, << >>, [x |-> x, y |-> y, z |-> z, vars |-> vars],
         choices, mode, g)

\* PointEvalT::eval_p on one clause: the value and the choice of min / max.
PointMin(a, b) ==
    IF is_nan(a) \/ is_nan(b) THEN [val |-> NaN, choice |-> Both]
    ELSE IF a.v < b.v THEN [val |-> a, choice |-> Left]
    ELSE IF b.v < a.v THEN [val |-> b, choice |-> Right]
    ELSE [val |-> a, choice |-> Both]

PointMax(a, b) ==
    IF is_nan(a) \/ is_nan(b) THEN [val |-> NaN, choice |-> Both]
    ELSE IF a.v > b.v THEN [val |-> a, choice |-> Left]
    ELSE IF b.v > a.v THEN [val |-> b, choice |-> Right]
    ELSE [val |-> a, choice |-> Both]

RECURSIVE RunP(_, _, _, _, _, _, _)
RunP(tape, i, slots, in, choices, mode, g) ==
    IF i > Len(tape) THEN [out |-> slots[Len(tape)], choices |-> choices]
    ELSE
      LET c == tape[i]
          k == ChoiceIndex(tape, i)
          r == CASE c.op = "x" -> [val |-> in.x, choice |-> Unknown]
                 [] c.op = "y" -> [val |-> in.y, choice |-> Unknown]
                 [] c.op = "z" -> [val |-> in.z, choice |-> Unknown]
                 [] c.op = "var" -> [val |-> ReadVar(in.vars, c.a, g),
                                     choice |-> Unknown]
                 [] c.op = "const" -> [val |-> F(c.a * Scale), choice |-> Unknown]
                 [] c.op = "copy" -> [val |-> slots[c.a], choice |-> Unknown]
                 [] c.op = "min" -> PointMin(slots[c.a], slots[c.b])
                 [] c.op = "max" -> PointMax(slots[c.a], slots[c.b])
                 [] OTHER -> [val |-> ArithP(c.op, slots[c.a], slots[c.b]),
                              choice |-> Unknown]
      IN IF r.val.k = "panic" \/ (IsChoiceOp(c) /\ k \notin DOMAIN choices)
         THEN [out |-> PanicF, choices |-> choices]
         ELSE RunP(tape, i + 1, Append(slots, r.val), in,
                   IF IsChoiceOp(c)
                   THEN [choices EXCEPT ![k] = WriteChoice(mode, @, r.choice)]
                   ELSE choices,
                   mode, g)

BackendEvalP(tape, x, y, z, vars, choices, mode, g) ==
    RunP(tape, 1, << >>, [x |-> x, y |-> y, z |-> z, vars |-> vars],
         choices, mode, g)

\* Tape::simplify: a slot recorded Left (Right) replaces its min / max clause by
\* its left (right) operand, Both keeps the clause; a slice of the wrong length
\* is refused. u is what the simplifier does with a slot that is Unknown.
TapeSimplify(tape, choices, u) ==
    IF Len(choices) # choice_count(tape)
    THEN [tag |-> "BadChoiceSlice", tape |-> << >>,
          given |-> Len(choices), expected |-> choice_count(tape)]
    ELSE IF u = "panic" /\ \E i \in DOMAIN choices : choices[i] = Unknown
    THEN [tag |-> "panic", tape |-> << >>, given |-> 0, expected |-> 0]
    ELSE [tag |-> "Ok",
          tape |-> [i \in DOMAIN tape |->
                      IF ~IsChoiceOp(tape[i]) THEN tape[i]
                      ELSE LET c == choices[ChoiceIndex(tape, i)]
                           IN IF c = Left THEN Cl("copy", tape[i].a, 0)
                              ELSE IF c = Right THEN Cl("copy", tape[i].b, 0)
                              ELSE tape[i]],
          given |-> 0, expected |-> 0]

\* ------------------------------------------------------------------ harness

\* An evaluator handle: IntervalEval (kind "interval") or PointEval ("point").
Handle(kind, tape, choices) ==
    [live |-> TRUE, kind |-> kind, tape |-> tape, choices |-> choices]

\* The handle after take() consumed it.
Consumed == [live |-> FALSE, kind |-> "interval", tape |-> << >>, choices |-> << >>]

\* vec![Choice::Unknown; n]
Fill(n, c) == [i \in 1 .. n |-> c]

\* Vec::resize
Resize(v, n, c) == [i \in 1 .. n |-> IF i <= Len(v) THEN v[i] ELSE c]

\* A new_with_storage that keeps the buffer as it comes.
new_with_storage_noresize(tape, s) == Handle("interval", tape, s)

\* A new that fills the buffer with Both.
new_filled_both(tape) == Handle("interval", tape, Fill(choice_count(tape), Both))

\* IntervalEval::new
new(tape) == Handle("interval", tape, Fill(choice_count(tape), Unknown))

\* IntervalEval::new_with_storage; s is the storage's choice vector.
new_with_storage(tape, s) ==
    Handle("interval", tape, Resize(s, choice_count(tape), Unknown))

\* IntervalEvalStorage::default
DefaultStorage == << >>

\* PointEval::new
point_new(tape) == Handle("point", tape, Fill(choice_count(tape), Unknown))

\* reset_choices
reset_choices(choices) == [i \in DOMAIN choices |-> Unknown]

\* The outcome of a call: tag "Ok" (eval_i), "BadVarSlice" (eval_i), "Val" (a
\* call that returns the bare value) or "panic".
Outcome(tag, val, given, expected) ==
    [tag |-> tag, val |-> val, given |-> given, expected |-> expected]

ZeroInterval == IntervalNew(F(0), F(0))

\* What a harness call hands back once the back-end returned r: the handle with
\* the buffer the back-end wrote, the outcome, the number of back-end calls.
Returned(e, tag, r) ==
    [ev |-> [e EXCEPT !.choices = r.choices], calls |-> 1,
     res |-> Outcome(IF IsPanic(r.out) THEN "panic" ELSE tag, r.out, 0, 0)]

SubdivReturned(e, r) ==
    [ev |-> [e EXCEPT !.choices = r.choices], calls |-> r.calls,
     res |-> Outcome(IF IsPanic(r.out) THEN "panic" ELSE "Val", r.out, 0, 0)]

PointReturned(e, r) ==
    [ev |-> [e EXCEPT !.choices = r.choices], calls |-> 1,
     res |-> Outcome(IF r.out.k = "panic" THEN "panic" ELSE "Val",
                     FromF32(r.out), 0, 0)]

\* An eval_i that does not reset the buffer before delegating.
eval_i_noreset(e, x, y, z, vars, mode, g) ==
    IF Len(vars) # var_count(e.tape)
    THEN [ev |-> e, calls |-> 0,
          res |-> Outcome("BadVarSlice", ZeroInterval, Len(vars), var_count(e.tape))]
    ELSE Returned(e, "Ok", BackendEvalI(e.tape, x, y, z, vars, e.choices, mode, g))

\* An eval_i that reports the two lengths in the wrong order.
eval_i_swapped(e, x, y, z, vars, mode, g) ==
    IF Len(vars) # var_count(e.tape)
    THEN [ev |-> e, calls |-> 0,
          res |-> Outcome("BadVarSlice", ZeroInterval, var_count(e.tape), Len(vars))]
    ELSE Returned(e, "Ok", BackendEvalI(e.tape, x, y, z, vars,
                                        reset_choices(e.choices), mode, g))

\* An eval_i that resets the buffer before it tests the length of vars.
eval_i_resetfirst(e, x, y, z, vars, mode, g) ==
    IF Len(vars) # var_count(e.tape)
    THEN [ev |-> [e EXCEPT !.choices = reset_choices(e.choices)], calls |-> 0,
          res |-> Outcome("BadVarSlice", ZeroInterval, Len(vars), var_count(e.tape))]
    ELSE Returned(e, "Ok", BackendEvalI(e.tape, x, y, z, vars,
                                        reset_choices(e.choices), mode, g))

\* IntervalEval::eval_i
eval_i(e, x, y, z, vars, mode, g) ==
    IF Len(vars) # var_count(e.tape)
    THEN [ev |-> e, calls |-> 0,
          res |-> Outcome("BadVarSlice", ZeroInterval, Len(vars), var_count(e.tape))]
    ELSE Returned(e, "Ok", BackendEvalI(e.tape, x, y, z, vars,
                                        reset_choices(e.choices), mode, g))

\* The axis eval_subdiv_recurse bisects and the two halves, lower half first.
Split(x, y, z) ==
    LET dx == FSub(x.upper, x.lower)
        dy == FSub(y.upper, y.lower)
        dz == FSub(z.upper, z.lower)
    IN IF FGe(dx, dy) /\ FGe(dx, dz)
       THEN LET x_mid == FAdd(x.lower, FHalf(dx))
            IN << [x |-> IntervalNew(x.lower, x_mid), y |-> y, z |-> z],
                  [x |-> IntervalNew(x_mid, x.upper), y |-> y, z |-> z] >>
       ELSE IF FGe(dy, dz)
       THEN LET y_mid == FAdd(y.lower, FHalf(dy))
            IN << [x |-> x, y |-> IntervalNew(y.lower, y_mid), z |-> z],
                  [x |-> x, y |-> IntervalNew(y_mid, y.upper), z |-> z] >>
       ELSE LET z_mid == FAdd(z.lower, FHalf(dz))
            IN << [x |-> x, y |-> y, z |-> IntervalNew(z.lower, z_mid)],
                  [x |-> x, y |-> y, z |-> IntervalNew(z_mid, z.upper)] >>

BoxPanics(b) == IsPanic(b.x) \/ IsPanic(b.y) \/ IsPanic(b.z)

\* A merge that adds the two sub-results where the code takes their hull.
SubdivMerge_sum(a, b) ==
    [out |-> IF IsPanic(b.out) THEN Panicked
             ELSE IF has_nan(a.out) \/ has_nan(b.out) THEN NanInterval
             ELSE IntervalNew(FAdd(a.out.lower, b.out.lower),
                              FAdd(a.out.upper, b.out.upper)),
     choices |-> b.choices,
     calls |-> a.calls + b.calls]

\* A merge that takes the hull with f32::min and f32::max alone, which skip a
\* NaN operand.
SubdivMerge_skipnan(a, b) ==
    [out |-> IF IsPanic(b.out) THEN Panicked
             ELSE IntervalNew(FMin(a.out.lower, b.out.lower),
                              FMax(a.out.upper, b.out.upper)),
     choices |-> b.choices,
     calls |-> a.calls + b.calls]

\* The parent's interval from the two sub-results a and b.
SubdivMerge(a, b) ==
    [out |-> IF IsPanic(b.out) THEN Panicked
             ELSE IF has_nan(a.out) \/ has_nan(b.out) THEN NanInterval
             ELSE IntervalNew(FMin(a.out.lower, b.out.lower),
                              FMax(a.out.upper, b.out.upper)),
     choices |-> b.choices,
     calls |-> a.calls + b.calls]

\* IntervalEval::eval_subdiv_recurse, threading the choice buffer through the
\* leaves and counting the back-end calls: the lower half is evaluated first,
\* the upper half on the buffer the lower half left.
RECURSIVE eval_subdiv_recurse(_, _, _, _, _, _, _, _, _)
SubdivUpper(tape, a, h, vars, subdiv, mode, g) ==
    IF IsPanic(a.out) \/ BoxPanics(h[2])
    THEN [out |-> Panicked, choices |-> a.choices, calls |-> a.calls]
    ELSE SubdivMerge(a, eval_subdiv_recurse(tape, a.choices, h[2].x, h[2].y,
                                            h[2].z, vars, subdiv - 1, mode, g))

SubdivLower(tape, choices, h, vars, subdiv, mode, g) ==
    IF BoxPanics(h[1])
    THEN [out |-> Panicked, choices |-> choices, calls |-> 0]
    ELSE SubdivUpper(tape,
                     eval_subdiv_recurse(tape, choices, h[1].x, h[1].y, h[1].z,
                                         vars, subdiv - 1, mode, g),
                     h, vars, subdiv, mode, g)

BackendCall(r) == [out |-> r.out, choices |-> r.choices, calls |-> 1]

eval_subdiv_recurse(tape, choices, x, y, z, vars, subdiv, mode, g) ==
    IF subdiv = 0
    THEN BackendCall(BackendEvalI(tape, x, y, z, vars, choices, mode, g))
    ELSE SubdivLower(tape, choices, Split(x, y, z), vars, subdiv, mode, g)

\* An eval_i_subdiv that does not reset the buffer at the outer call.
eval_i_subdiv_noreset(e, x, y, z, vars, subdiv, mode, g) ==
    SubdivReturned(e, eval_subdiv_recurse(e.tape, e.choices, x, y, z,
                                          vars, subdiv, mode, g))

\* IntervalEval::eval_i_subdiv
eval_i_subdiv(e, x, y, z, vars, subdiv, mode, g) ==
    SubdivReturned(e, eval_subdiv_recurse(e.tape, reset_choices(e.choices),
                                          x, y, z, vars, subdiv, mode, g))

\* An eval_p that does not reset the buffer before delegating.
eval_p_noreset(e, x, y, z, mode) ==
    PointReturned(e, BackendEvalP(e.tape, x, y, z, << >>, e.choices, mode,
                                  PanicF))

\* PointEval::eval_p
eval_p(e, x, y, z, mode) ==
    PointReturned(e, BackendEvalP(e.tape, x, y, z, << >>,
                                  reset_choices(e.choices), mode, PanicF))

\* IntervalEval::simplify and PointEval::simplify: tape.simplify(&choices).unwrap()
simplify(e, u) == TapeSimplify(e.tape, e.choices, u)

\* ------------------------------------------------------------------ state

VARIABLES
    mode,      \* the back-end family of the evaluators: "or" or "assign"
    ev,        \* the evaluator handle
    storage,   \* the storage detached by take(), if any
    call,      \* the call that just returned: the handle before it, its
               \* arguments and its outcome; op is "none" once the caller has
               \* read the outcome
    simp,      \* what simplify() returned, while the caller holds it
    fcall,     \* the last call of an Interval operation: operands and result
    twin,      \* an evaluator built by new() over the same tape when ev was
               \* built and given the same calls since: its choice buffer and
               \* the outcome of its last call
    peers      \* several evaluators that hold one shared tape: the tape, the
               \* choice vectors on the heap, the evaluators, and for each
               \* evaluator what it holds when it runs alone

vars == << mode, ev, storage, call, simp, fcall, twin, peers >>

\* ------------------------------------------------------------------ inputs

InVals == {F(i * Scale) : i \in 0 .. MaxVal}
Points == InVals \cup {NaN}
Intervals ==
    ({IntervalNew(a, b) : a \in InVals, b \in InVals} \ {Panicked})
        \cup {NanInterval}
\* The value of a variable lies above every box endpoint.
VarVals == {F((MaxVal + 1) * Scale)}
VarSlices == UNION {[1 .. n -> VarVals] : n \in 0 .. MaxVars}
\* What an out-of-bounds read of the vars slice can give: a panic, or whatever
\* lies behind the slice.
Garbage == {PanicF, F(0)}
UnknownOutcomes == {"keep", "panic"}

\* Operand endpoints: the small values, the largest finite ones, the infinities.
OperandVals ==
    {F(i) : i \in (0 - MaxOperand) .. MaxOperand}
        \cup {F(0 - MaxFinite), F(MaxFinite), NegInf, PosInf}
Operands ==
    ({IntervalNew(a, b) : a \in OperandVals, b \in OperandVals} \ {Panicked})
        \cup {NanInterval}

\* The intervals of test_i_sqrt and test_i_recip beyond the small operands:
\* [-2, 4], [-2, -1], [0, 4], [-2, 3] and [1, 2].
TestOperands ==
    {IntervalNew(F(0 - 2 * Scale), F(4 * Scale)),
     IntervalNew(F(0 - 2 * Scale), F(0 - Scale)),
     IntervalNew(F(0), F(4 * Scale)),
     IntervalNew(F(0 - 2 * Scale), F(3 * Scale)),
     IntervalNew(F(Scale), F(2 * Scale))}

NoStorage == [some |-> FALSE, choices |-> << >>]
SomeStorage(c) == [some |-> TRUE, choices |-> c]
NoSimp == [tag |-> "none", tape |-> << >>, given |-> 0, expected |-> 0]
NoFCall == [op |-> "none", a |-> ZeroInterval, b |-> ZeroInterval,
            val |-> ZeroInterval, choice |-> Unknown]

Call(op, pre, x, y, z, vs, k, g, res, calls) ==
    [op |-> op, pre |-> pre, x |-> x, y |-> y, z |-> z, vars |-> vs, k |-> k,
     g |-> g, res |-> res, calls |-> calls]

\* A call that takes no box: new, new_with_storage, take. For new_with_storage
\* pre is the consumed handle with the buffer its storage carried.
Plain(op, pre) ==
    Call(op, pre, ZeroInterval, ZeroInterval, ZeroInterval, << >>, 0, PanicF,
         Outcome("Val", ZeroInterval, 0, 0), 0)

NoCall == Plain("none", Consumed)

NoRes == Outcome("Val", ZeroInterval, 0, 0)
Twin(choices, res) == [choices |-> choices, res |-> res]
NoTwin == Twin(<< >>, NoRes)
\* The twin evaluator: ev's tape with the twin's buffer.
OnTwin == [ev EXCEPT !.choices = twin.choices]

\* No evaluators share a tape.
NoPeers == [tape |-> << >>, heap |-> << >>, evs |-> << >>, solo |-> << >>,
            last |-> 0]

Idle == call.op = "none" /\ simp.tag = "none"

\* ------------------------------------------------------------------ actions

New(t) ==
    /\ Idle
    /\ ~storage.some
    /\ ev' = new(t)
    /\ call' = Plain("new", ev)
    /\ twin' = Twin(new(t).choices, NoRes)
    /\ UNCHANGED << mode, storage, simp, fcall, peers >>

\* eval_p takes no vars: point evaluators are built over tapes without variables.
PointNew(t) ==
    /\ Idle
    /\ ~storage.some
    /\ var_count(t) = 0
    /\ ev' = point_new(t)
    /\ call' = Plain("point_new", ev)
    /\ twin' = Twin(point_new(t).choices, NoRes)
    /\ UNCHANGED << mode, storage, simp, fcall, peers >>

\* IntervalEval::take: the back-end's take() answers Some (inner) or None.
Take(inner) ==
    /\ Idle
    /\ ev.live /\ ev.kind = "interval"
    /\ storage' = IF inner THEN SomeStorage(ev.choices) ELSE NoStorage
    /\ ev' = Consumed
    /\ call' = Plain("take", ev)
    /\ twin' = NoTwin
    /\ UNCHANGED << mode, simp, fcall, peers >>

NewWithStorage(t) ==
    /\ Idle
    /\ storage.some
    /\ ev' = new_with_storage(t, storage.choices)
    /\ storage' = NoStorage
    /\ call' = Plain("new_with_storage",
                      [Consumed EXCEPT !.choices = storage.choices])
    /\ twin' = Twin(new(t).choices, NoRes)
    /\ UNCHANGED << mode, simp, fcall, peers >>

NewWithDefaultStorage(t) ==
    /\ Idle
    /\ ~storage.some
    /\ ev' = new_with_storage(t, DefaultStorage)
    /\ call' = Plain("new_with_default_storage", ev)
    /\ twin' = Twin(new(t).choices, NoRes)
    /\ UNCHANGED << mode, storage, simp, fcall, peers >>

EvalI(x, y, z, vs) ==
    /\ Idle
    /\ ev.live /\ ev.kind = "interval"
    /\ \E r \in {eval_i(ev, x, y, z, vs, mode, PanicF)} :
          /\ ev' = r.ev
          /\ call' = Call("eval_i", ev, x, y, z, vs, 0, PanicF, r.res, r.calls)
    /\ \E r \in {eval_i(OnTwin, x, y, z, vs, mode, PanicF)} :
          twin' = Twin(r.ev.choices, r.res)
    /\ UNCHANGED << mode, storage, simp, fcall, peers >>

EvalISubdiv(x, y, z, vs, k, g) ==
    /\ Idle
    /\ ev.live /\ ev.kind = "interval"
    /\ \E r \in {eval_i_subdiv(ev, x, y, z, vs, k, mode, g)} :
          /\ ev' = r.ev
          /\ call' = Call("eval_i_subdiv", ev, x, y, z, vs, k, g, r.res, r.calls)
    /\ \E r \in {eval_i_subdiv(OnTwin, x, y, z, vs, k, mode, g)} :
          twin' = Twin(r.ev.choices, r.res)
    /\ UNCHANGED << mode, storage, simp, fcall, peers >>

EvalP(x, y, z) ==
    /\ Idle
    /\ ev.live /\ ev.kind = "point"
    /\ \E r \in {eval_p(ev, x, y, z, mode)} :
          /\ ev' = r.ev
          /\ call' = Call("eval_p", ev, FromF32(x), FromF32(y), FromF32(z),
                          << >>, 0, PanicF, r.res, r.calls)
    /\ \E r \in {eval_p(OnTwin, x, y, z, mode)} :
          twin' = Twin(r.ev.choices, r.res)
    /\ UNCHANGED << mode, storage, simp, fcall, peers >>

\* simplify() on the handle as the last call left it.
Simplify(u) ==
    /\ ev.live
    /\ simp.tag = "none"
    /\ simp' = simplify(ev, u)
    /\ UNCHANGED << mode, ev, storage, call, fcall, twin, peers >>

\* The caller is done with the outcome of the last call and with the
\* simplified tape.
Return ==
    /\ ~Idle
    /\ call' = NoCall
    /\ simp' = NoSimp
    /\ twin' = [twin EXCEPT !.res = NoRes]
    /\ UNCHANGED << mode, ev, storage, fcall, peers >>

Init ==
    /\ mode \in Modes
    /\ \E t \in Tapes : ev = new(t)
    /\ storage = NoStorage
    /\ call = Plain("new", Consumed)
    /\ simp = NoSimp
    /\ fcall = NoFCall
    /\ twin = Twin(ev.choices, NoRes)
    /\ peers = NoPeers

Next ==
    \/ \E t \in Tapes : New(t)
    \/ \E t \in Tapes : PointNew(t)
    \/ \E inner \in BOOLEAN : Take(inner)
    \/ \E t \in Tapes : NewWithStorage(t)
    \/ \E t \in Tapes : NewWithDefaultStorage(t)
    \/ \E x \in Intervals, y \in Intervals, z \in Intervals, vs \in VarSlices :
          EvalI(x, y, z, vs)
    \/ \E x \in Intervals, y \in Intervals, z \in Intervals, vs \in VarSlices,
          k \in 0 .. MaxSubdiv :
          \E g \in (IF ev.live /\ Len(vs) < var_count(ev.tape)
                    THEN Garbage ELSE {PanicF}) :
             EvalISubdiv(x, y, z, vs, k, g)
    \/ \E x \in Points, y \in Points, z \in Points : EvalP(x, y, z)
    \/ \E u \in UnknownOutcomes : Simplify(u)
    \/ Return

Spec == Init /\ [][Next]_vars

\* ---------------------------------------------------- the scenarios

\* The interval [a / 2, b / 2].
Halves(a, b) == IntervalNew(F((a * Scale) \div 2), F((b * Scale) \div 2))

\* The boxes of the scenarios: [-6, 5], [2, 3], [-1, 1], [0, 1], [-2, 3],
\* [-2, -1], the widest finite interval [-f32::MAX, f32::MAX] and NaN on x,
\* [-4, 3], [0, 1], [2, 3], [0, 0] and NaN on y, [4, 5], [1, 4], [1, 1.5] and
\* [0, 0] on z.
ScenX == {Halves(0 - 12, 10), Halves(4, 6), Halves(0 - 2, 2), Halves(0, 2),
          Halves(0 - 4, 6), Halves(0 - 4, 0 - 2),
          IntervalNew(F(0 - MaxFinite), F(MaxFinite)), NanInterval}
ScenY == {Halves(0 - 8, 6), Halves(0, 2), Halves(4, 6), ZeroInterval,
          NanInterval}
ScenZ == {Halves(8, 10), Halves(2, 8), Halves(2, 3), ZeroInterval}
\* The points of the scenarios: 0, 1, 2 and NaN.
ScenPoints == {F(0), F(Scale), F(2 * Scale), NaN}

InitScen ==
    /\ mode \in Modes
    /\ \E t \in ScenTapes : ev = new(t)
    /\ storage = NoStorage
    /\ call = Plain("new", Consumed)
    /\ simp = NoSimp
    /\ fcall = NoFCall
    /\ twin = Twin(ev.choices, NoRes)
    /\ peers = NoPeers

NextScen ==
    \/ \E t \in ScenTapes : New(t)
    \/ \E t \in ScenTapes : PointNew(t)
    \/ \E x \in ScenX, y \in ScenY, z \in ScenZ : EvalI(x, y, z, << >>)
    \/ \E x \in ScenX, y \in ScenY, z \in ScenZ, k \in 0 .. MaxSubdiv :
          EvalISubdiv(x, y, z, << >>, k, PanicF)
    \/ \E x \in ScenPoints, y \in ScenPoints, z \in ScenPoints : EvalP(x, y, z)
    \/ Return

SpecScen == InitScen /\ [][NextScen]_vars

\* ---------------------------------------------------- the Interval operations

FCall(op, a, b, val, choice) ==
    [op |-> op, a |-> a, b |-> b, val |-> val, choice |-> choice]

MinChoiceCall(a, b) ==
    /\ fcall.op = "none"
    /\ \E r \in {min_choice(a, b)} :
          fcall' = FCall("min_choice", a, b, r.val, r.choice)
    /\ UNCHANGED << mode, ev, storage, call, simp, twin, peers >>

MaxChoiceCall(a, b) ==
    /\ fcall.op = "none"
    /\ \E r \in {max_choice(a, b)} :
          fcall' = FCall("max_choice", a, b, r.val, r.choice)
    /\ UNCHANGED << mode, ev, storage, call, simp, twin, peers >>

\* Interval::from(f32)
FromCall(f) ==
    /\ fcall.op = "none"
    /\ fcall' = FCall("from", [lower |-> f, upper |-> f], [lower |-> f, upper |-> f], FromF32(f), Unknown)
    /\ UNCHANGED << mode, ev, storage, call, simp, twin, peers >>

NegCall(a) ==
    /\ fcall.op = "none"
    /\ fcall' = FCall("neg", a, a, neg(a), Unknown)
    /\ UNCHANGED << mode, ev, storage, call, simp, twin, peers >>

AbsCall(a) ==
    /\ fcall.op = "none"
    /\ fcall' = FCall("abs", a, a, abs(a), Unknown)
    /\ UNCHANGED << mode, ev, storage, call, simp, twin, peers >>

SquareCall(a) ==
    /\ fcall.op = "none"
    /\ fcall' = FCall("square", a, a, square(a), Unknown)
    /\ UNCHANGED << mode, ev, storage, call, simp, twin, peers >>

SqrtCall(a) ==
    /\ fcall.op = "none"
    /\ fcall' = FCall("sqrt", a, a, sqrt(a), Unknown)
    /\ UNCHANGED << mode, ev, storage, call, simp, twin, peers >>

RecipCall(a) ==
    /\ fcall.op = "none"
    /\ fcall' = FCall("recip", a, a, recip(a), Unknown)
    /\ UNCHANGED << mode, ev, storage, call, simp, twin, peers >>

AddCall(a, b) ==
    /\ fcall.op = "none"
    /\ fcall' = FCall("add", a, b, add(a, b), Unknown)
    /\ UNCHANGED << mode, ev, storage, call, simp, twin, peers >>

SubCall(a, b) ==
    /\ fcall.op = "none"
    /\ fcall' = FCall("sub", a, b, sub(a, b), Unknown)
    /\ UNCHANGED << mode, ev, storage, call, simp, twin, peers >>

MulCall(a, b) ==
    /\ fcall.op = "none"
    /\ fcall' = FCall("mul", a, b, mul(a, b), Unknown)
    /\ UNCHANGED << mode, ev, storage, call, simp, twin, peers >>

DivCall(a, b) ==
    /\ fcall.op = "none"
    /\ fcall' = FCall("div", a, b, div(a, b), Unknown)
    /\ UNCHANGED << mode, ev, storage, call, simp, twin, peers >>

\* One level of eval_subdiv_recurse over the box (a, b, 0) for the tape
\* min(x, y) on an assigning back-end: the halves it builds, the merge of the
\* two results, and the slot as the leaf evaluated last left it.
SubdivCall(a, b) ==
    /\ fcall.op = "none"
    /\ \E r \in {eval_subdiv_recurse(TapeMin, << Unknown >>, a, b, ZeroInterval,
                                     << >>, 1, "assign", PanicF)} :
          fcall' = FCall("subdiv", a, b, r.out, r.choices[1])
    /\ UNCHANGED << mode, ev, storage, call, simp, twin, peers >>

\* The caller is done with the result.
ReturnOps ==
    /\ fcall.op # "none"
    /\ fcall' = NoFCall
    /\ UNCHANGED << mode, ev, storage, call, simp, twin, peers >>

InitOps ==
    /\ mode = "or"
    /\ ev = Consumed
    /\ storage = NoStorage
    /\ call = NoCall
    /\ simp = NoSimp
    /\ fcall = NoFCall
    /\ twin = NoTwin
    /\ peers = NoPeers

NextOps ==
    \/ \E a \in Operands, b \in Operands : MinChoiceCall(a, b)
    \/ \E a \in Operands, b \in Operands : MaxChoiceCall(a, b)
    \/ \E f \in OperandVals \cup {NaN} : FromCall(f)
    \/ \E a \in Operands : NegCall(a)
    \/ \E a \in Operands : AbsCall(a)
    \/ \E a \in Operands : SquareCall(a)
    \/ \E a \in Operands \cup TestOperands : SqrtCall(a)
    \/ \E a \in Operands \cup TestOperands : RecipCall(a)
    \/ \E a \in Operands, b \in Operands : AddCall(a, b)
    \/ \E a \in Operands, b \in Operands : SubCall(a, b)
    \/ \E a \in Operands, b \in Operands : MulCall(a, b)
    \/ \E a \in Operands, b \in Operands : DivCall(a, b)
    \/ \E a \in Operands, b \in Operands : SubdivCall(a, b)
    \/ ReturnOps

SpecOps == InitOps /\ [][NextOps]_vars

\* ---------------------------------------------------- the choice slots

\* The last write of a choice slot: the slot, its value before, the choice
\* merged into it and its value after.
MergeCall(slot, before, c, after) ==
    [op |-> "merge", slot |-> slot, a |-> before, b |-> c, val |-> after,
     choice |-> after]

\* An OR-merging back-end writes the choice c of one sample into slot i.
WriteSlot(i, c) ==
    /\ ev.live
    /\ i \in DOMAIN ev.choices
    /\ ev' = [ev EXCEPT !.choices[i] = WriteChoice(mode, @, c)]
    /\ fcall' = MergeCall(i, ev.choices[i], c, WriteChoice(mode, ev.choices[i], c))
    /\ UNCHANGED << mode, storage, call, simp, twin, peers >>

\* The harness resets the buffer at the start of the next evaluation.
ResetChoices ==
    /\ ev.live
    /\ ev' = [ev EXCEPT !.choices = reset_choices(@)]
    /\ fcall' = NoFCall
    /\ UNCHANGED << mode, storage, call, simp, twin, peers >>

InitChoice ==
    /\ mode = "or"
    /\ ev = new(TapeMaxMax)
    /\ storage = NoStorage
    /\ call = NoCall
    /\ simp = NoSimp
    /\ fcall = NoFCall
    /\ twin = NoTwin
    /\ peers = NoPeers

NextChoice ==
    \/ \E i \in 1 .. choice_count(TapeMaxMax), c \in Choice : WriteSlot(i, c)
    \/ ResetChoices

SpecChoice == InitChoice /\ [][NextChoice]_vars

\* ---------------------------------------------------- evaluators sharing a tape

\* An evaluator among the peers owns the choice vector heap[buf]; its tape is
\* the shared one.
Peer(buf) == [buf |-> buf]

\* The handle of peer i: the shared tape with the peer's own choice vector.
PeerHandle(i) == Handle("interval", peers.tape, peers.heap[peers.evs[i].buf])

\* A clone whose choice vector is the very vector of the original.
CloneVec_alias(heap, buf) == [heap |-> heap, buf |-> buf]

\* Vec::clone, as derive(Clone) calls it on the choices of an IntervalEval: a
\* new vector on the heap with the contents of the one at buf.
CloneVec(heap, buf) == [heap |-> Append(heap, heap[buf]), buf |-> Len(heap) + 1]

\* Tapes with one and with two choice operators.
ShareTapes == {TapeMin, TapeMaxMax}

\* IntervalEval::new(e.tape()): one more evaluator over the shared tape.
ShareNew ==
    /\ Idle
    /\ Len(peers.evs) < MaxPeers
    /\ peers' = [peers EXCEPT
                   !.heap = Append(@, new(peers.tape).choices),
                   !.evs = Append(@, Peer(Len(peers.heap) + 1)),
                   !.solo = Append(@, new(peers.tape))]
    /\ UNCHANGED << mode, ev, storage, call, simp, fcall, twin >>

\* e.clone(): one more evaluator, holding what peer i holds.
ShareClone(i) ==
    /\ Idle
    /\ i \in DOMAIN peers.evs
    /\ Len(peers.evs) < MaxPeers
    /\ \E c \in {CloneVec(peers.heap, peers.evs[i].buf)} :
          peers' = [peers EXCEPT
                      !.heap = c.heap,
                      !.evs = Append(@, Peer(c.buf)),
                      !.solo = Append(@, peers.solo[i])]
    /\ UNCHANGED << mode, ev, storage, call, simp, fcall, twin >>

\* eval_i on peer i; the evaluator that runs alone is given the same call.
ShareEvalI(i, x, y, z) ==
    /\ Idle
    /\ i \in DOMAIN peers.evs
    /\ \E r \in {eval_i(PeerHandle(i), x, y, z, << >>, mode, PanicF)} :
          /\ call' = Call("eval_i", PeerHandle(i), x, y, z, << >>, 0, PanicF,
                          r.res, r.calls)
          /\ \E s \in {eval_i(peers.solo[i], x, y, z, << >>, mode, PanicF)} :
                /\ peers' = [peers EXCEPT
                               !.heap[peers.evs[i].buf] = r.ev.choices,
                               !.solo[i] = s.ev,
                               !.last = i]
                /\ twin' = Twin(s.ev.choices, s.res)
    /\ UNCHANGED << mode, ev, storage, simp, fcall >>

\* eval_i_subdiv on peer i.
ShareEvalISubdiv(i, x, y, z, k) ==
    /\ Idle
    /\ i \in DOMAIN peers.evs
    /\ \E r \in {eval_i_subdiv(PeerHandle(i), x, y, z, << >>, k, mode, PanicF)} :
          /\ call' = Call("eval_i_subdiv", PeerHandle(i), x, y, z, << >>, k,
                          PanicF, r.res, r.calls)
          /\ \E s \in {eval_i_subdiv(peers.solo[i], x, y, z, << >>, k, mode,
                                     PanicF)} :
                /\ peers' = [peers EXCEPT
                               !.heap[peers.evs[i].buf] = r.ev.choices,
                               !.solo[i] = s.ev,
                               !.last = i]
                /\ twin' = Twin(s.ev.choices, s.res)
    /\ UNCHANGED << mode, ev, storage, simp, fcall >>

\* simplify() on peer i: the tape it returns is a new one.
ShareSimplify(i, u) ==
    /\ simp.tag = "none"
    /\ i \in DOMAIN peers.evs
    /\ peers.last \in {0, i}
    /\ simp' = simplify(PeerHandle(i), u)
    /\ peers' = [peers EXCEPT !.last = i]
    /\ UNCHANGED << mode, ev, storage, call, fcall, twin >>

\* tape() on peer i: a copy of the handle on the shared tape.
ShareTape(i) ==
    /\ simp.tag = "none"
    /\ i \in DOMAIN peers.evs
    /\ peers.last \in {0, i}
    /\ simp' = [tag |-> "tape", tape |-> PeerHandle(i).tape,
                given |-> 0, expected |-> 0]
    /\ peers' = [peers EXCEPT !.last = i]
    /\ UNCHANGED << mode, ev, storage, call, fcall, twin >>

\* The caller is done with what the last call returned.
ShareReturn ==
    /\ ~Idle
    /\ call' = NoCall
    /\ simp' = NoSimp
    /\ twin' = NoTwin
    /\ peers' = [peers EXCEPT !.last = 0]
    /\ UNCHANGED << mode, ev, storage, fcall >>

InitShare ==
    /\ mode \in Modes
    /\ ev = Consumed
    /\ storage = NoStorage
    /\ call = NoCall
    /\ simp = NoSimp
    /\ fcall = NoFCall
    /\ twin = NoTwin
    /\ \E t \in ShareTapes :
          peers = [tape |-> t, heap |-> << new(t).choices >>,
                   evs |-> << Peer(1) >>, solo |-> << new(t) >>, last |-> 0]

NextShare ==
    \/ ShareNew
    \/ \E i \in 1 .. MaxPeers : ShareClone(i)
    \/ \E i \in 1 .. MaxPeers, x \in Intervals, y \in Intervals :
          ShareEvalI(i, x, y, ZeroInterval)
    \/ \E i \in 1 .. MaxPeers, x \in Intervals, y \in Intervals,
          k \in 0 .. MaxSubdiv :
          ShareEvalISubdiv(i, x, y, ZeroInterval, k)
    \/ \E i \in 1 .. MaxPeers, u \in UnknownOutcomes : ShareSimplify(i, u)
    \/ \E i \in 1 .. MaxPeers : ShareTape(i)
    \/ ShareReturn

SpecShare == InitShare /\ [][NextShare]_vars

\* ------------------------------------------------------------------ claims

Succeeded == call.res.tag \in {"Ok", "Val"}

\* The buffer a freshly constructed evaluator holds after the call in `call`.
FreshAfterCall ==
    IF call.op = "eval_p"
    THEN eval_p(point_new(ev.tape), call.x.lower, call.y.lower, call.z.lower,
                mode).ev.choices
    ELSE eval_i(new(ev.tape), call.x, call.y, call.z, call.vars, mode,
                call.g).ev.choices

\* C1: after a successful eval_i or eval_p the choice buffer is the trace of
\* that single call, the one a freshly constructed evaluator would hold after
\* the same call, whatever calls came before and also with a back-end that
\* ORs into the slots.
C1_SingleCallTrace ==
    (call.op \in {"eval_i", "eval_p"} /\ Succeeded)
        => ev.choices = FreshAfterCall

\* An eval_i on an OR-merging back-end whose buffer held Both before the call
\* and holds Left after it.
C1_Witness ==
    /\ call.op = "eval_i" /\ call.res.tag = "Ok"
    /\ mode = "or"
    /\ call.pre.choices = << Both >>
    /\ ev.choices = << Left >>

\* C2: right after new every slot is Unknown, and after a successful eval_i,
\* eval_i_subdiv or eval_p no slot is Unknown.
C2_ResetPurity ==
    /\ call.op \in {"new", "point_new"}
          => \A i \in DOMAIN ev.choices : ev.choices[i] = Unknown
    /\ (call.op \in {"eval_i", "eval_i_subdiv", "eval_p"} /\ Succeeded)
          => \A i \in DOMAIN ev.choices : ev.choices[i] # Unknown

\* A subdivided evaluation of a tape with two choice operators has returned.
C2_Witness ==
    /\ call.op = "eval_i_subdiv" /\ call.res.tag = "Val"
    /\ call.k >= 1
    /\ Len(ev.choices) = 2
    /\ \A i \in DOMAIN ev.choices : ev.choices[i] # Unknown

\* C3: the choice buffer of a live evaluator is as long as its tape has choice
\* operators, however the evaluator was built, so simplify() never fails with
\* BadChoiceSlice.
C3_BufferLength ==
    /\ ev.live => Len(ev.choices) = choice_count(ev.tape)
    /\ simp.tag # "BadChoiceSlice"

\* An evaluator built from the storage of one with more choice operators, and
\* simplified.
C3_Witness ==
    /\ call.op = "new_with_storage"
    /\ Len(call.pre.choices) > Len(ev.choices)
    /\ Len(ev.choices) > 0
    /\ simp.tag = "Ok"

\* C4: eval_i answers BadVarSlice(vars.len(), tape.var_count()) exactly when the
\* two differ, and Ok with the back-end's interval otherwise.
C4_BadVarSlice ==
    call.op = "eval_i" =>
        /\ call.res.tag = "BadVarSlice" <=> Len(call.vars) # var_count(ev.tape)
        /\ call.res.tag = "BadVarSlice" =>
              /\ call.res.given = Len(call.vars)
              /\ call.res.expected = var_count(ev.tape)
        /\ call.res.tag # "BadVarSlice" =>
              /\ call.res.tag = "Ok"
              /\ call.res.val =
                   BackendEvalI(ev.tape, call.x, call.y, call.z, call.vars,
                                Fill(choice_count(ev.tape), Unknown), mode,
                                PanicF).out

\* eval_i was handed one variable for a tape that has none.
C4_Witness ==
    /\ call.op = "eval_i"
    /\ call.res.tag = "BadVarSlice"
    /\ call.res.given = 1 /\ call.res.expected = 0

\* C5: eval_i_subdiv(X, Y, Z, vars, 0) does what eval_i(X, Y, Z, vars) does on
\* the same evaluator, for every vars slice: the same outcome and interval, as
\* many back-end calls, the same buffer afterwards.
C5_SubdivZeroIsEvalI ==
    (call.op = "eval_i_subdiv" /\ call.k = 0) =>
        LET r == eval_i(call.pre, call.x, call.y, call.z, call.vars, mode, call.g)
        IN /\ r.res.tag = "Ok" /\ call.res.tag = "Val"
           /\ call.res.val = r.res.val
           /\ call.calls = r.calls
           /\ ev.choices = r.ev.choices

\* The boxes of the 2^k leaf evaluations, in the order they are evaluated.
RECURSIVE LeafBoxes(_, _, _, _)
LeafBoxes(x, y, z, k) ==
    IF k = 0 THEN << [x |-> x, y |-> y, z |-> z] >>
    ELSE LET h == Split(x, y, z)
         IN LeafBoxes(h[1].x, h[1].y, h[1].z, k - 1)
                \o LeafBoxes(h[2].x, h[2].y, h[2].z, k - 1)

\* The choices the min / max operators of `tape` produce on one leaf.
LeafTrace(tape, box, vs, g) ==
    BackendEvalI(tape, box.x, box.y, box.z, vs,
                 Fill(choice_count(tape), Unknown), "assign", g).choices

RECURSIVE OrAll(_, _)
OrAll(traces, i) ==
    IF traces = << >> THEN Unknown
    ELSE ChoiceOr(Head(traces)[i], OrAll(Tail(traces), i))

CallLeaves == LeafBoxes(call.x, call.y, call.z, call.k)
CallLeafTraces ==
    [j \in DOMAIN CallLeaves |-> LeafTrace(ev.tape, CallLeaves[j], call.vars, call.g)]
LeafUnion == [i \in 1 .. choice_count(ev.tape) |-> OrAll(CallLeafTraces, i)]
LastLeafTrace == CallLeafTraces[Len(CallLeafTraces)]

\* C6 as stated: after eval_i_subdiv every slot is the union of the choices of
\* all 2^k leaves, with an OR-merging and with an assigning back-end alike.
C6_SubdivUnionAnyBackend ==
    (call.op = "eval_i_subdiv" /\ call.res.tag = "Val")
        => ev.choices = LeafUnion

\* C6 (amended): after eval_i_subdiv on an OR-merging back-end every slot is
\* the union of the choices of all 2^k leaves; on an assigning back-end every
\* slot is the choice of the last leaf evaluated.
C6_SubdivUnion ==
    (call.op = "eval_i_subdiv" /\ call.res.tag = "Val")
        => ev.choices = (IF mode = "or" THEN LeafUnion ELSE LastLeafTrace)

\* A subdivided evaluation on an OR-merging back-end whose leaves disagree: the
\* slot is Both and the last leaf alone gave Right.
C6_Witness ==
    /\ call.op = "eval_i_subdiv" /\ call.res.tag = "Val"
    /\ mode = "or"
    /\ call.k >= 1
    /\ ev.choices = << Both >>
    /\ LastLeafTrace = << Right >>

\* The numbers sampled as points: the small values, the largest finite ones and
\* the infinities.
SampleMax == Max2(MaxOperand, MaxVal * Scale) + 1
SamplePoints ==
    {F(n) : n \in (0 - SampleMax) .. SampleMax}
        \cup {F(0 - MaxFinite), F(MaxFinite), NegInf, PosInf}

\* The points of an interval among the sampled numbers.
PointsIn(i) ==
    IF has_nan(i) THEN {NaN}
    ELSE {p \in SamplePoints : FLe(i.lower, p) /\ FLe(p, i.upper)}

\* The value of a tape at a point.
PointValue(tape, x, y, z, vs, g) ==
    BackendEvalP(tape, x, y, z, vs, Fill(choice_count(tape), Unknown),
                 "assign", g).out

C8_MinChoiceSound ==
    (fcall.op = "min_choice" /\ ~has_nan(fcall.a) /\ ~has_nan(fcall.b)) =>
        \A x \in PointsIn(fcall.a), y \in PointsIn(fcall.b) :
            /\ fcall.choice = Left => FMin(x, y) = x
            /\ fcall.choice = Right => FMin(x, y) = y

\* min_choice answered Left for two intervals that are not single points.
C8_Witness ==
    /\ fcall.op = "min_choice"
    /\ fcall.choice = Left
    /\ fcall.a.lower # fcall.a.upper
    /\ fcall.b.lower # fcall.b.upper

\* C9: when max_choice of two non-NaN intervals answers Left, max(x, y) = x for
\* all points x, y of the operands; when it answers Right, max(x, y) = y.
C9_MaxChoiceSound ==
    (fcall.op = "max_choice" /\ ~has_nan(fcall.a) /\ ~has_nan(fcall.b)) =>
        \A x \in PointsIn(fcall.a), y \in PointsIn(fcall.b) :
            /\ fcall.choice = Left => FMax(x, y) = x
            /\ fcall.choice = Right => FMax(x, y) = y

\* max_choice answered Right for two intervals that are not single points.
C9_Witness ==
    /\ fcall.op = "max_choice"
    /\ fcall.choice = Right
    /\ fcall.a.lower # fcall.a.upper
    /\ fcall.b.lower # fcall.b.upper

\* C10: min_choice answers Left iff self.upper < rhs.lower, Right iff
\* rhs.upper < self.lower, Both otherwise; max_choice answers Left iff
\* self.lower > rhs.upper, Right iff rhs.lower > self.upper, Both otherwise;
\* the value of non-NaN operands is the componentwise min (max).
C10_StrictChoice ==
    LET a == fcall.a
        b == fcall.b
        ok == ~has_nan(a) /\ ~has_nan(b)
    IN /\ fcall.op = "min_choice" =>
            /\ fcall.choice = Left <=> (ok /\ a.upper.v < b.lower.v)
            /\ fcall.choice = Right <=> (ok /\ b.upper.v < a.lower.v)
            /\ fcall.choice \in {Left, Right, Both}
            /\ ok => fcall.val = [lower |-> FMin(a.lower, b.lower),
                                  upper |-> FMin(a.upper, b.upper)]
       /\ fcall.op = "max_choice" =>
            /\ fcall.choice = Left <=> (ok /\ a.lower.v > b.upper.v)
            /\ fcall.choice = Right <=> (ok /\ b.lower.v > a.upper.v)
            /\ fcall.choice \in {Left, Right, Both}
            /\ ok => fcall.val = [lower |-> FMax(a.lower, b.lower),
                                  upper |-> FMax(a.upper, b.upper)]

\* min_choice of two intervals that touch in one point, as [1, 2] and [2, 3]:
\* the answer is Both.
C10_Witness ==
    /\ fcall.op = "min_choice"
    /\ FEq(fcall.a.upper, fcall.b.lower)
    /\ FLt(fcall.a.lower, fcall.a.upper)
    /\ FLt(fcall.b.lower, fcall.b.upper)
    /\ fcall.choice = Both

\* C11: for non-NaN operands, a min_choice or max_choice that answers Left
\* returns exactly the left operand, and one that answers Right returns exactly
\* the right operand.
C11_ChoiceIsOperand ==
    (/\ fcall.op \in {"min_choice", "max_choice"}
     /\ ~has_nan(fcall.a) /\ ~has_nan(fcall.b)) =>
        /\ fcall.choice = Left => fcall.val = fcall.a
        /\ fcall.choice = Right => fcall.val = fcall.b

\* max_choice answered Right and returned its right operand, a wide interval
\* that differs from the left one.
C11_Witness ==
    /\ fcall.op = "max_choice"
    /\ fcall.choice = Right
    /\ fcall.val = fcall.b
    /\ fcall.b.lower # fcall.b.upper
    /\ ~has_nan(fcall.a)

\* C12: mul, div, min_choice and max_choice of a NaN operand give the NaN
\* interval, and min_choice / max_choice then answer Both.
C12_NanMonotone ==
    (/\ fcall.op \in {"mul", "div", "min_choice", "max_choice"}
     /\ has_nan(fcall.a) \/ has_nan(fcall.b)) =>
        /\ is_nan(fcall.val.lower) /\ is_nan(fcall.val.upper)
        /\ fcall.op \in {"min_choice", "max_choice"} => fcall.choice = Both

\* min_choice of a number interval and the NaN interval.
C12_Witness ==
    /\ fcall.op = "min_choice"
    /\ ~has_nan(fcall.a) /\ has_nan(fcall.b)
    /\ has_nan(fcall.val)
    /\ fcall.choice = Both

\* The NaN-or-ordered invariant of an interval.
Valid(i) == FLe(i.lower, i.upper) \/ (is_nan(i.lower) /\ is_nan(i.upper))

\* C13: every operation applied to valid intervals constructs a valid interval:
\* the assertion of Interval::new never fails and the result is ordered or NaN
\* at both endpoints.
C13_AlwaysValid ==
    fcall.op # "none" => (~IsPanic(fcall.val) /\ Valid(fcall.val))

\* p lies in the set the interval i stands for.
Inside(p, i) ==
    IF is_nan(p) THEN has_nan(i) ELSE FLe(i.lower, p) /\ FLe(p, i.upper)

ContainsZero(i) == ~(FGt(i.lower, F(0)) \/ FLt(i.upper, F(0)))

\* The operations containment is claimed for, with the operands it is claimed for.
Claimed14 ==
    \/ fcall.op \in {"add", "sub", "mul", "neg", "abs", "square",
                     "min_choice", "max_choice"}
    \/ fcall.op = "div" /\ ~ContainsZero(fcall.b)
    \/ fcall.op = "recip" /\ ~ContainsZero(fcall.a)
    \/ fcall.op = "sqrt" /\ FGe(fcall.a.lower, F(0))

\* The value of the operation of the last call at the points x, y.
PointOp(x, y) ==
    CASE fcall.op = "min_choice" -> PointMin(x, y).val
      [] fcall.op = "max_choice" -> PointMax(x, y).val
      [] OTHER -> ArithP(fcall.op, x, y)

\* C14: for every operation and all valid operands the value at every point of
\* the operands lies inside the interval the operation returns.
C14_Containment ==
    Claimed14 =>
        \A x \in PointsIn(fcall.a), y \in PointsIn(fcall.b) :
            Inside(PointOp(x, y), fcall.val)

Width(i) == FSub(i.upper, i.lower)

\* The call of scenario S5: abs(x) + abs(y) on x = [-6, 5], y = [-4, 3].
S5Call ==
    /\ call.op = "eval_i"
    /\ ev.tape = TapeAbsSum
    /\ call.x = Halves(0 - 12, 10)
    /\ call.y = Halves(0 - 8, 6)

\* C15 as stated: scenario S5 returns [0, 9] and records no choices.
C15_ScenarioS5AsStated ==
    S5Call => /\ call.res.tag = "Ok"
              /\ call.res.val = Halves(0, 18)
              /\ ev.choices = << >>

\* C15 (amended): scenario S5 returns [0, 10], whose width is the sum of the
\* widths of abs(x) = [0, 6] and abs(y) = [0, 4], and records no choices.
C15_ScenarioS5 ==
    S5Call => /\ call.res.tag = "Ok"
              /\ call.res.val = Halves(0, 20)
              /\ Width(call.res.val)
                   = FAdd(Width(abs(call.x)), Width(abs(call.y)))
              /\ ev.choices = << >>

\* Scenario S5 has been evaluated and the upper bound is 10.
C15_Witness ==
    /\ S5Call
    /\ call.res.tag = "Ok"
    /\ call.res.val.upper = F(10 * Scale)

\* C16: for max(max(x, y), z) slot 1 is the choice of x against y and slot 2
\* the choice of the interval of max(x, y) against z; with x = [2, 3] and
\* y = [0, 1], z = [4, 5] gives [4, 5] and [Left, Right], z = [1, 4] gives
\* [2, 4] and [Left, Both], z = [1, 1.5] gives [2, 3] and [Left, Left].
C16_SlotsInTapeOrder ==
    (call.op = "eval_i" /\ call.res.tag = "Ok" /\ ev.tape = TapeMaxMax) =>
        LET inner == max_choice(call.x, call.y)
            outer == max_choice(inner.val, call.z)
        IN /\ ev.choices = << inner.choice, outer.choice >>
           /\ call.res.val = outer.val
           /\ (call.x = Halves(4, 6) /\ call.y = Halves(0, 2)) =>
                /\ call.z = Halves(8, 10) =>
                     /\ call.res.val = Halves(8, 10)
                     /\ ev.choices = << Left, Right >>
                /\ call.z = Halves(2, 8) =>
                     /\ call.res.val = Halves(4, 8)
                     /\ ev.choices = << Left, Both >>
                /\ call.z = Halves(2, 3) =>
                     /\ call.res.val = Halves(4, 6)
                     /\ ev.choices = << Left, Left >>

\* Scenario S4: max(max(x, y), z) on x = [2, 3], y = [0, 1], z = [4, 5] after
\* an earlier call on the same evaluator.
C16_Witness ==
    /\ call.op = "eval_i" /\ call.res.tag = "Ok"
    /\ ev.tape = TapeMaxMax
    /\ call.x = Halves(4, 6) /\ call.y = Halves(0, 2) /\ call.z = Halves(8, 10)
    /\ ev.choices = << Left, Right >>
    /\ call.pre.choices = << Left, Both >>

\* C17: after eval_p on min(x, y) or max(x, y) the slot is Both iff the
\* operands are equal or one is NaN (the result is then NaN for a NaN operand),
\* Left iff the left operand is strictly selected, Right iff the right one is;
\* the value returned is the selected operand.
C17_PointTrace ==
    (call.op = "eval_p" /\ ev.tape \in {TapeMin, TapeMax}) =>
        LET x == call.x.lower
            y == call.y.lower
            c == ev.choices[1]
            v == call.res.val.lower
            nan == is_nan(x) \/ is_nan(y)
            left == IF ev.tape = TapeMin THEN FLt(x, y) ELSE FGt(x, y)
            right == IF ev.tape = TapeMin THEN FLt(y, x) ELSE FGt(y, x)
        IN /\ call.res.tag = "Val"
           /\ c = Both <=> (nan \/ FEq(x, y))
           /\ c = Left <=> left
           /\ c = Right <=> right
           /\ nan => is_nan(v)
           /\ left => v = x
           /\ right => v = y
           /\ FEq(x, y) => v = x

\* eval_p on max(x, y) selected the right operand on an evaluator whose last
\* call had selected the left one.
C17_Witness ==
    /\ call.op = "eval_p" /\ ev.tape = TapeMax
    /\ call.pre.choices = << Left >>
    /\ ev.choices = << Right >>
    /\ call.res.val.lower = call.y.lower

\* C18: an evaluator built by take() and new_with_storage() behaves on every
\* later eval_i / eval_i_subdiv call as the evaluator built by new() over the
\* same tape: the same outcome and the same choice buffer after the call.
C18_StorageRoundTrip ==
    call.op \in {"eval_i", "eval_i_subdiv"} =>
        /\ call.res = twin.res
        /\ ev.choices = twin.choices

\* C19: the buffer of an interval evaluator never holds what was written while
\* it belonged to an earlier evaluator: choices() and the slice simplify()
\* hands to the tape are those of the evaluator built by new().
C19_NoLeak ==
    (ev.live /\ ev.kind = "interval") =>
        /\ ev.choices = twin.choices
        /\ simp.tag = "Ok" =>
              simp.tape = TapeSimplify(ev.tape, twin.choices, "keep").tape

\* What the call in `call` returns when it subdivides one level deeper.
Deeper ==
    eval_i_subdiv(call.pre, call.x, call.y, call.z, call.vars, call.k + 1,
                  mode, call.g).res.val

SeenLeft(c) == c % 2 = 1
SeenRight(c) == c \div 2 = 1

\* C21: the merge of two choices is the bitwise OR of their two-bit encodings
\* (Unknown = 0, Left = 1, Right = 2, Both = 3): it is commutative, associative
\* and idempotent, Unknown is its identity, Left merged with Right is Both, and
\* a merge never clears a bit of the slot, so between two resets a slot only
\* moves from Unknown to Left / Right to Both.
C21_MergeLattice ==
    /\ << Unknown, Left, Right, Both >> = << 0, 1, 2, 3 >>
    /\ \A i \in DOMAIN ev.choices : ev.choices[i] \in Choice
    /\ fcall.op = "merge" =>
          /\ ev.choices[fcall.slot] = fcall.val
          /\ SeenLeft(fcall.val) <=> (SeenLeft(fcall.a) \/ SeenLeft(fcall.b))
          /\ SeenRight(fcall.val) <=> (SeenRight(fcall.a) \/ SeenRight(fcall.b))
          /\ fcall.val = ChoiceOr(fcall.b, fcall.a)
          /\ \A c \in Choice :
                ChoiceOr(fcall.val, c) = ChoiceOr(fcall.a, ChoiceOr(fcall.b, c))
          /\ ChoiceOr(fcall.a, fcall.a) = fcall.a
          /\ ChoiceOr(fcall.val, fcall.b) = fcall.val
          /\ fcall.b = Unknown => fcall.val = fcall.a
          /\ fcall.a = Unknown => fcall.val = fcall.b
          /\ (fcall.a = Left /\ fcall.b = Right) => fcall.val = Both
          /\ SeenLeft(fcall.a) => SeenLeft(fcall.val)
          /\ SeenRight(fcall.a) => SeenRight(fcall.val)

\* Right was merged into a slot that held Left: the slot holds Both, and the
\* other slot keeps the Left merged into it earlier.
C21_Witness ==
    /\ fcall.op = "merge"
    /\ fcall.a = Left /\ fcall.b = Right /\ fcall.val = Both
    /\ ev.choices[fcall.slot] = Both
    /\ \E i \in DOMAIN ev.choices : ev.choices[i] = Left

\* C22: sqrt of an interval with lower >= 0 is [sqrt(lower), sqrt(upper)]; of
\* one that straddles zero it is [0, sqrt(upper)], so [-2, 4] gives [0, 2]; of
\* one with lower < 0 and upper <= 0 it is the NaN interval, so [-2, -1] gives
\* NaN; of the NaN interval it is the NaN interval.
C22_Sqrt ==
    fcall.op = "sqrt" =>
        /\ FGe(fcall.a.lower, F(0)) =>
              fcall.val = [lower |-> FSqrt(fcall.a.lower),
                           upper |-> FSqrt(fcall.a.upper)]
        /\ (FLt(fcall.a.lower, F(0)) /\ FGt(fcall.a.upper, F(0))) =>
              fcall.val = [lower |-> F(0), upper |-> FSqrt(fcall.a.upper)]
        /\ (FLt(fcall.a.lower, F(0)) /\ FLe(fcall.a.upper, F(0))) =>
              fcall.val = NanInterval
        /\ has_nan(fcall.a) => fcall.val = NanInterval
        /\ fcall.a = [lower |-> F(0 - 2 * Scale), upper |-> F(4 * Scale)] =>
              fcall.val = [lower |-> F(0), upper |-> F(2 * Scale)]
        /\ fcall.a = [lower |-> F(0 - 2 * Scale), upper |-> F(0 - Scale)] =>
              fcall.val = NanInterval

\* sqrt of [-2, 4] has returned [0, 2].
C22_Witness ==
    /\ fcall.op = "sqrt"
    /\ fcall.a = [lower |-> F(0 - 2 * Scale), upper |-> F(4 * Scale)]
    /\ fcall.val = [lower |-> F(0), upper |-> F(2 * Scale)]

\* C23: recip of an interval that does not contain zero (lower > 0 or
\* upper < 0) is [1 / upper, 1 / lower], and the NaN interval otherwise (zero
\* inside or at an endpoint, or a NaN input); div by a denominator that contains
\* zero is the NaN interval; eval_i of 1 / x and of x / y then returns Ok with
\* the NaN interval, never an error, as in scenario S7 (1 / x on [-2, 3]).
C23_RecipDivNan ==
    /\ (call.op = "eval_i" /\ ev.tape = TapeRecip) =>
          /\ call.res.tag = "Ok"
          /\ call.res.val =
                (IF FGt(call.x.lower, F(0)) \/ FLt(call.x.upper, F(0))
                 THEN [lower |-> FDiv(F(Scale), call.x.upper),
                       upper |-> FDiv(F(Scale), call.x.lower)]
                 ELSE NanInterval)
          /\ call.x = Halves(0 - 4, 6) => call.res.val = NanInterval
          /\ call.x = Halves(0 - 4, 0 - 2) => call.res.val = Halves(0 - 2, 0 - 1)
    /\ (call.op = "eval_i" /\ ev.tape = TapeDiv /\ ContainsZero(call.y)) =>
          /\ call.res.tag = "Ok"
          /\ call.res.val = NanInterval

\* Scenario S7: eval_i of 1 / x on x = [-2, 3] has returned Ok with the NaN
\* interval.
C23_Witness ==
    /\ call.op = "eval_i" /\ ev.tape = TapeRecip
    /\ call.x = Halves(0 - 4, 6)
    /\ call.res.tag = "Ok"
    /\ has_nan(call.res.val)

\* The last call applied neg, sqrt or recip to the degenerate interval [v, v].
SingletonCall ==
    /\ fcall.op \in {"neg", "sqrt", "recip"}
    /\ fcall.a.lower = fcall.a.upper

\* The degenerate interval of the scalar computation on v.
ScalarResult ==
    [lower |-> ArithP(fcall.op, fcall.a.lower, fcall.a.lower),
     upper |-> ArithP(fcall.op, fcall.a.lower, fcall.a.lower)]

\* C24 as stated: for every scalar v, neg, sqrt and recip of [v, v] return
\* [f(v), f(v)] of the scalar computation.
C24_SingletonExactAll ==
    SingletonCall => fcall.val = ScalarResult

\* C24 (amended): neg and sqrt of [v, v] return [f(v), f(v)] for every scalar
\* v, and recip does for every v other than zero; recip of [0, 0] is the NaN
\* interval, where the scalar 1 / 0 is an infinity.
C24_SingletonExact ==
    SingletonCall =>
        IF fcall.op = "recip" /\ FEq(fcall.a.lower, F(0))
        THEN fcall.val = NanInterval /\ IsInf(ScalarResult.lower)
        ELSE fcall.val = ScalarResult

\* recip of [v, v] for a finite v other than 0 and 1 has returned [1 / v, 1 / v].
C24_Witness ==
    /\ fcall.op = "recip"
    /\ fcall.a.lower = fcall.a.upper
    /\ fcall.a.lower.k = "num" /\ fcall.a.lower.v # 0
    /\ fcall.val.lower = FDiv(F(Scale), fcall.a.lower)
    /\ fcall.val.upper = fcall.val.lower
    /\ fcall.val # fcall.a

\* The box of the last subdivision call and the two halves built from it.
SubdivBox == [x |-> fcall.a, y |-> fcall.b, z |-> ZeroInterval]
SubdivHalves == Split(fcall.a, fcall.b, ZeroInterval)

\* The axis the tie-break rule names: x before y before z.
WidestAxis ==
    IF FGe(Width(SubdivBox.x), Width(SubdivBox.y))
           /\ FGe(Width(SubdivBox.x), Width(SubdivBox.z)) THEN "x"
    ELSE IF FGe(Width(SubdivBox.y), Width(SubdivBox.z)) THEN "y"
    ELSE "z"

\* The halves h bisect the axis ax of the box at m and leave the other axes as
\* they are.
Bisects(h, box, ax, m) ==
    /\ FLe(box[ax].lower, m) /\ FLe(m, box[ax].upper)
    /\ h[1][ax] = [lower |-> box[ax].lower, upper |-> m]
    /\ h[2][ax] = [lower |-> m, upper |-> box[ax].upper]
    /\ \A o \in {"x", "y", "z"} \ {ax} : h[1][o] = box[o] /\ h[2][o] = box[o]

\* C25: a subdivision level bisects exactly one axis, x if dx >= dy and
\* dx >= dz, else y if dy >= dz, else z; the split point m = lower + width / 2
\* lies between lower and upper, the halves are [lower, m] and [m, upper], the
\* other two axes are passed unchanged, and the lower half is evaluated before
\* the upper half, so an assigning back-end leaves the choice of the upper half.
C25_Bisection ==
    fcall.op = "subdiv" =>
        /\ Bisects(SubdivHalves, SubdivBox, WidestAxis,
                   FAdd(SubdivBox[WidestAxis].lower,
                        FHalf(Width(SubdivBox[WidestAxis]))))
        /\ ~IsPanic(fcall.val)
        /\ fcall.choice =
              min_choice(SubdivHalves[2].x, SubdivHalves[2].y).choice

\* The intervals the back-end returns on the leaves of the call in `call`.
CallLeafResults ==
    [j \in DOMAIN CallLeaves |->
        BackendEvalI(ev.tape, CallLeaves[j].x, CallLeaves[j].y, CallLeaves[j].z,
                     call.vars, Fill(choice_count(ev.tape), Unknown), mode,
                     call.g).out]

\* i is the hull of the intervals rs: its lower bound is the least of their
\* lower bounds and its upper bound the greatest of their upper bounds.
IsHull(i, rs) ==
    /\ \E j \in DOMAIN rs : i.lower = rs[j].lower
    /\ \A j \in DOMAIN rs : FLe(i.lower, rs[j].lower)
    /\ \E j \in DOMAIN rs : i.upper = rs[j].upper
    /\ \A j \in DOMAIN rs : FGe(i.upper, rs[j].upper)

\* C26: the interval eval_i_subdiv returns is the NaN interval iff the result
\* of at least one leaf is NaN, and otherwise the hull of the leaf results.
C26_HullOrNan ==
    (call.op = "eval_i_subdiv" /\ Succeeded) =>
        \E rs \in {CallLeafResults} :
            /\ Len(rs) = Pow2(call.k)
            /\ has_nan(call.res.val) <=> \E j \in DOMAIN rs : has_nan(rs[j])
            /\ has_nan(call.res.val) => call.res.val = NanInterval
            /\ ~has_nan(call.res.val) => IsHull(call.res.val, rs)

\* A subdivided evaluation with a NaN leaf and a leaf that is not NaN has
\* returned the NaN interval.
C26_Witness ==
    /\ call.op = "eval_i_subdiv" /\ Succeeded
    /\ call.k >= 1
    /\ \E j \in DOMAIN CallLeafResults : has_nan(CallLeafResults[j])
    /\ \E j \in DOMAIN CallLeafResults : ~has_nan(CallLeafResults[j])
    /\ call.res.val = NanInterval

\* The axis interval i lies inside the axis interval o.
AxisInside(i, o) == i = o \/ (FLe(o.lower, i.lower) /\ FLe(i.upper, o.upper))

BoxInside(b, o) == \A ax \in {"x", "y", "z"} : AxisInside(b[ax], o[ax])

\* The leaves of k levels of subdivision tile the box: at every level the two
\* halves meet in one point of one axis and together span it.
RECURSIVE Tiles(_, _)
Tiles(box, k) ==
    \/ k = 0
    \/ \E h \in {Split(box.x, box.y, box.z)} :
          /\ \E ax \in {"x", "y", "z"} : Bisects(h, box, ax, h[1][ax].upper)
          /\ Tiles(h[1], k - 1)
          /\ Tiles(h[2], k - 1)

\* C27: every eval_i_subdiv call returns; it resets the choice buffer once,
\* before the first back-end call and not between the leaves, so that on an
\* OR-merging back-end the buffer is the union of the leaf traces and holds
\* nothing of earlier calls; it invokes the back-end exactly 2^k times; every
\* leaf box lies inside the outer box and the leaf boxes together are the
\* outer box.
C27_SubdivTerminates ==
    call.op = "eval_i_subdiv" =>
        /\ Succeeded
        /\ call.calls = Pow2(call.k)
        /\ Len(CallLeaves) = Pow2(call.k)
        /\ ev.choices = (IF mode = "or" THEN LeafUnion ELSE LastLeafTrace)
        /\ \A j \in DOMAIN CallLeaves :
              BoxInside(CallLeaves[j], [x |-> call.x, y |-> call.y, z |-> call.z])
        /\ Tiles([x |-> call.x, y |-> call.y, z |-> call.z], call.k)

\* C28: evaluators that hold one shared tape, built by new or as clones, are
\* isolated: whatever the interleaving of their eval_i, eval_i_subdiv,
\* simplify() and tape() calls, each evaluator holds the tape and the choice
\* buffer it holds when it runs alone, its calls return what they return when
\* it runs alone, and the tape is the one that was shared at the start;
\* simplify() and tape() change neither the tape nor a choice buffer.
C28_Isolation ==
    /\ \A i \in DOMAIN peers.evs : PeerHandle(i) = peers.solo[i]
    /\ (peers.last # 0 /\ call.op \in {"eval_i", "eval_i_subdiv"}) =>
          /\ call.res = twin.res
          /\ PeerHandle(peers.last).choices = twin.choices
    /\ (peers.last # 0 /\ simp.tag = "Ok") =>
          simp.tape = TapeSimplify(peers.solo[peers.last].tape,
                                   peers.solo[peers.last].choices, "keep").tape
    /\ (peers.last # 0 /\ simp.tag = "tape") =>
          simp.tape = peers.solo[peers.last].tape

\* Two evaluators of one tape whose buffers differ: the second, a clone made
\* after the first had recorded Left, has been evaluated since and holds Right,
\* and simplify() has been called on it.
C28_Witness ==
    /\ Len(peers.evs) = 2
    /\ peers.last = 2
    /\ call.op = "eval_i"
    /\ call.pre.choices = << Left >>
    /\ PeerHandle(1).choices = << Left >>
    /\ PeerHandle(2).choices = << Right >>
    /\ simp.tag = "Ok"

\* C29: an eval_i that fails with BadVarSlice has no effect: the back-end is
\* not invoked and the evaluator, its choice buffer included, is as it was
\* before the call, so choices() and simplify() after it give what they gave
\* before it.
C29_FailedEvalNoEffect ==
    (call.op = "eval_i" /\ call.res.tag = "BadVarSlice") =>
        /\ call.calls = 0
        /\ ev = call.pre
        /\ ev.choices = call.pre.choices
        /\ simp.tag # "none" => simp \in {simplify(call.pre, u) : u \in UnknownOutcomes}

\* An eval_i has failed on an evaluator whose last successful evaluation
\* recorded Left, and simplify() after it has replaced the min clause by its
\* left operand.
C29_Witness ==
    /\ call.op = "eval_i" /\ call.res.tag = "BadVarSlice"
    /\ call.pre.choices = << Left >>
    /\ ev.choices = << Left >>
    /\ simp.tag = "Ok"
    /\ simp.tape[3] = Cl("copy", 1, 0)

\* What an interval evaluator of the tape of `ev` gives on the degenerate box
\* of the point of the call in `call`.
DegenerateEval ==
    eval_i(new(ev.tape), call.x, call.y, call.z, << >>, mode, PanicF)

\* C30: for min(x, y) and max(x, y), eval_i on the singletons [x, x], [y, y]
\* returns the singleton of the value eval_p(x, y) returns and records the
\* choice eval_p records: Left or Right when one operand is strictly selected,
\* Both when the operands are equal or one is NaN.
C30_DegenerateAgrees ==
    (call.op = "eval_p" /\ ev.tape \in {TapeMin, TapeMax}) =>
        \E r \in {DegenerateEval} :
            /\ call.x.lower = call.x.upper /\ call.y.lower = call.y.upper
            /\ r.res.tag = "Ok" /\ call.res.tag = "Val"
            /\ r.res.val = call.res.val
            /\ r.res.val.lower = r.res.val.upper
            /\ r.ev.choices = ev.choices
            /\ ev.choices[1] \in {Left, Right, Both}
            /\ ev.choices[1] = Both <=>
                  (has_nan(call.x) \/ has_nan(call.y) \/ call.x = call.y)

\* eval_p of min(x, y) with x < y has returned x and recorded Left, as eval_i
\* does on [x, x], [y, y].
C30_Witness ==
    /\ call.op = "eval_p" /\ ev.tape = TapeMin
    /\ FLt(call.x.lower, call.y.lower)
    /\ call.res.val = call.x
    /\ ev.choices = << Left >>
    /\ DegenerateEval.ev.choices = << Left >>

=============================================================================
